---------------------------- MODULE Spec2Model ----------------------------
(***************************************************************************)
(* Model of the mc admin connection factory (newAdminFactory / s3AdminNew) *)
(* and of the SUBNET credential, login and registration-info helpers of    *)
(* cmd/subnet-utils.go.                                                    *)
(*                                                                         *)
(* Strings are sequences of one-character strings, so that concatenation,  *)
(* URL parsing and hashing are computed byte by byte as the code does.     *)
(***************************************************************************)
EXTENDS Integers, Sequences, FiniteSets, TLC

VARIABLES
    \* ---- connection factory (newAdminFactory) ----
    clientCache,   \* map confSum -> index of the cached client in conns
    mutex,         \* "free" or the caller holding the lock
    conns,         \* the clients madmin.New has allocated, by identity (index)
    pc,            \* each caller's position inside the closure
    cfg,           \* each caller's *Config argument
    loc,           \* each caller's locals: useTLS, hostName, confSum, api
    returned,      \* every (identity, client) pair a successful call returned
    failed,        \* every identity for which a call returned an error
    calls,         \* number of calls started
    globalDebug,   \* the process-wide debug flag copied into every Config
    \* ---- credential resolution (getSubnetKeyFromMinIOConfig and callers) ----
    minio,         \* per alias: the administered cluster's help keys and subnet config
    mcCfg,         \* the local mc configuration: Aliases[alias] = {APIKey, License}
    credPc,        \* position inside getSubnet{APIKey,License}FromConfig
    credCall,      \* the call in progress: key, alias and what it has done so far
    credRes,       \* what the last call produced: a value or a fatal exit
    \* ---- SUBNET authorization (subnetURLWithAuth, subnetLogin, getSubnetAccID) ----
    authPc,        \* position inside registerClusterOnSubnet / subnetURLWithAuth
    auth,          \* the locals of the call chain
    reqs,          \* the HTTP requests sent to SUBNET, in order
    prompts,       \* the terminal prompts shown, in order
    \* ---- registration info (getClusterRegInfo) ----
    regPc,         \* position inside getClusterRegInfo
    reg            \* its argument, its locals and the value it returned

cacheVars ==
    <<clientCache, mutex, conns, pc, cfg, loc, returned, failed, calls, globalDebug>>

credVars == <<minio, mcCfg, credPc, credCall, credRes>>

authVars == <<authPc, auth, reqs, prompts>>

regVars == <<regPc, reg>>

vars == <<cacheVars, credVars, authVars, regVars>>

\* what the steps of one component leave alone
OnlyCache == UNCHANGED <<credVars, authVars, regVars>>

OnlyCred == UNCHANGED <<cacheVars, authVars, regVars>>

OnlyAuth == UNCHANGED <<cacheVars, credVars, regVars>>

OnlyReg == UNCHANGED <<cacheVars, credVars, authVars>>

(***************************************************************************)
(* Bounds                                                                  *)
(***************************************************************************)
MaxCalls == 3

Callers == {"c1", "c2"}

(***************************************************************************)
(* Strings as byte sequences                                               *)
(***************************************************************************)
Ord(c) ==
    CASE c = "/" -> 47
      [] c = ":" -> 58
      [] c = "a" -> 97
      [] c = "b" -> 98
      [] c = "c" -> 99
      [] c = "d" -> 100
      [] c = "h" -> 104
      [] c = "p" -> 112
      [] c = "s" -> 115
      [] c = "t" -> 116

RECURSIVE XorBits(_, _, _)
XorBits(a, b, n) ==
    IF n = 0 THEN 0
    ELSE (((a % 2) + (b % 2)) % 2) + 2 * XorBits(a \div 2, b \div 2, n - 1)

(***************************************************************************)
(* hash/fnv New32a: 32-bit FNV-1a.  A 32-bit word is kept as two 16-bit    *)
(* halves <<hi, lo>>; every product stays below 2^31.                      *)
(***************************************************************************)
FnvOffsetHi == 33052    \* 0x811C
FnvOffsetLo == 40389    \* 0x9DC5
FnvPrimeLo == 403       \* 0x0193 ; the prime is 2^24 + 0x193

FnvStep(h, b) ==
    LET lo  == (h[2] \div 256) * 256 + XorBits(h[2] % 256, b, 8)
        hi  == h[1]
        pl  == lo * FnvPrimeLo
        nhi == ((hi * FnvPrimeLo) + (pl \div 65536) + ((lo % 256) * 256)) % 65536
    IN  <<nhi, pl % 65536>>

RECURSIVE FnvWrite(_, _)
FnvWrite(h, s) ==
    IF s = <<>> THEN h ELSE FnvWrite(FnvStep(h, Ord(Head(s))), Tail(s))

Sum32a(s) == FnvWrite(<<FnvOffsetHi, FnvOffsetLo>>, s)

(***************************************************************************)
(* net/url Parse, for the URL shapes a host configuration holds:           *)
(* [scheme ":"] ["//" host] [path].  A leading ":" is a parse error (the   *)
(* returned *URL is nil).                                                  *)
(***************************************************************************)
IsSchemeChar(c) == c \notin {":", "/"}

RECURSIVE SchemeEnd(_, _)
\* index of the ":" ending the scheme; 0 when there is no scheme; -1 on error
SchemeEnd(s, i) ==
    IF i > Len(s) THEN 0
    ELSE IF IsSchemeChar(s[i]) THEN SchemeEnd(s, i + 1)
    ELSE IF s[i] = ":" THEN (IF i = 1 THEN -1 ELSE i)
    ELSE 0

RECURSIVE UpToSlash(_)
UpToSlash(s) ==
    IF s = <<>> \/ Head(s) = "/" THEN <<>> ELSE <<Head(s)>> \o UpToSlash(Tail(s))

urlParse(rawURL) ==
    LET e    == SchemeEnd(rawURL, 1)
        rest == IF e > 0 THEN SubSeq(rawURL, e + 1, Len(rawURL)) ELSE rawURL
        hasAuthority == Len(rest) >= 2 /\ rest[1] = "/" /\ rest[2] = "/"
    IN  [ok     |-> e # -1,
         Scheme |-> IF e > 0 THEN SubSeq(rawURL, 1, e - 1) ELSE <<>>,
         Host   |-> IF e # -1 /\ hasAuthority
                    THEN UpToSlash(SubSeq(rest, 3, Len(rest))) ELSE <<>>]

(***************************************************************************)
(* Inputs: the *Config values callers pass to s3AdminNew.                  *)
(***************************************************************************)
HostURLs ==
    { <<"h","t","t","p",":","/","/","a">>,
      <<"h","t","t","p","s",":","/","/","a">>,
      <<"h","t","t","p","s",":","/","/","a","a">>,
      <<"a">> }

AccessKeys == { <<"c">>, <<"a","c">> }

SecretKeys == { <<"d">> }

Configs ==
    [HostURL : HostURLs, AccessKey : AccessKeys, SecretKey : SecretKeys,
     Insecure : BOOLEAN, Debug : BOOLEAN]

\* the (host, access key, secret key) identity of a config
Identity(c) == <<urlParse(c.HostURL).Host, c.AccessKey, c.SecretKey>>

(***************************************************************************)
(* madmin.New: fails on an endpoint that is no host name.                  *)
(***************************************************************************)
madminNewFails(hostName) == hostName = <<>>

NoClient == 0

NoConfig == [HostURL |-> <<>>, AccessKey |-> <<>>, SecretKey |-> <<>>,
             Insecure |-> FALSE, Debug |-> FALSE]

InitLoc == [useTLS |-> TRUE, hostName |-> <<>>, confSum |-> <<0, 0>>, api |-> NoClient]

CacheStart ==
    /\ clientCache = << >>
    /\ mutex = "free"
    /\ conns = << >>
    /\ pc = [p \in Callers |-> "idle"]
    /\ cfg = [p \in Callers |-> NoConfig]
    /\ loc = [p \in Callers |-> InitLoc]
    /\ returned = {}
    /\ failed = {}
    /\ calls = 0

CacheQuiet == CacheStart /\ globalDebug = FALSE

\* a fingerprint taken over the whole URL instead of its host
confSumOfRawURL(hostName, config) ==
    Sum32a(config.HostURL \o config.AccessKey \o config.SecretKey)

\* part_001 lines 38-52: parse the URL, pick useTLS, hash the identity
confSumOf(hostName, config) ==
    Sum32a(hostName \o config.AccessKey \o config.SecretKey)

useTLSOf(targetURL) == ~(targetURL.Scheme = <<"h","t","t","p">>)

Call(p, config) ==
    /\ pc[p] = "idle"
    /\ calls < MaxCalls
    /\ config.Debug = globalDebug
    /\ calls' = calls + 1
    /\ cfg' = [cfg EXCEPT ![p] = config]
    /\ LET targetURL == urlParse(config.HostURL)
       IN  IF targetURL.ok
           THEN /\ loc' = [loc EXCEPT ![p] =
                            [useTLS   |-> useTLSOf(targetURL),
                             hostName |-> targetURL.Host,
                             confSum  |-> confSumOf(targetURL.Host, config),
                             api      |-> NoClient]]
                /\ pc' = [pc EXCEPT ![p] = "lock"]
           ELSE \* nil *URL dereferenced at line 42: the call panics
                /\ loc' = [loc EXCEPT ![p] = InitLoc]
                /\ pc' = [pc EXCEPT ![p] = "panic"]
    /\ UNCHANGED <<clientCache, mutex, conns, returned, failed, globalDebug>>
    /\ OnlyCache

\* a Lock that never waits
LockNoWait(p) == TRUE

\* line 55: mutex.Lock()
LockFree(p) == mutex = "free"

Lock(p) ==
    /\ pc[p] = "lock"
    /\ LockFree(p)
    /\ mutex' = p
    /\ pc' = [pc EXCEPT ![p] = "lookup"]
    /\ UNCHANGED <<clientCache, conns, cfg, loc, returned, failed, calls, globalDebug>>
    /\ OnlyCache

\* a lookup that never finds an entry
FoundNever(p) == FALSE

\* line 59: api, found = clientCache[confSum]
Found(p) == loc[p].confSum \in DOMAIN clientCache

Lookup(p) ==
    /\ pc[p] = "lookup"
    /\ IF Found(p)
       THEN /\ loc' = [loc EXCEPT ![p].api = clientCache[loc[p].confSum]]
            /\ pc' = [pc EXCEPT ![p] = "return"]
       ELSE /\ loc' = loc
            /\ pc' = [pc EXCEPT ![p] = "new"]
    /\ UNCHANGED <<clientCache, mutex, conns, cfg, returned, failed, calls, globalDebug>>
    /\ OnlyCache

\* lines 62-65: madmin.New; on error return nil, probe.NewError(e) (unlocking)
Unlocked(p) == IF mutex = p THEN "free" ELSE mutex

New(p) ==
    /\ pc[p] = "new"
    /\ IF madminNewFails(loc[p].hostName)
       THEN /\ failed' = failed \cup {Identity(cfg[p])}
            /\ mutex' = Unlocked(p)
            /\ pc' = [pc EXCEPT ![p] = "idle"]
            /\ loc' = [loc EXCEPT ![p] = InitLoc]
            /\ cfg' = [cfg EXCEPT ![p] = NoConfig]
            /\ conns' = conns
       ELSE /\ conns' = Append(conns,
                          [endpoint  |-> loc[p].hostName,
                           accessKey |-> cfg[p].AccessKey,
                           secretKey |-> cfg[p].SecretKey,
                           secure    |-> loc[p].useTLS,
                           transport |-> "unset",
                           appInfo   |-> FALSE])
            /\ loc' = [loc EXCEPT ![p].api = Len(conns) + 1]
            /\ pc' = [pc EXCEPT ![p] = "store"]
            /\ UNCHANGED <<failed, mutex, cfg>>
    /\ UNCHANGED <<clientCache, returned, calls, globalDebug>>
    /\ OnlyCache

\* lines 67-81: the transport handed to SetCustomTransport
transportOf(useTLS, config) ==
    [custom     |-> useTLS,
     skipVerify |-> useTLS /\ config.Insecure,
     traced     |-> config.Debug]

\* line 90: clientCache[confSum] = api
CachePut(cache, sum, api) ==
    [k \in DOMAIN cache \cup {sum} |-> IF k = sum THEN api ELSE cache[k]]

\* lines 67-90: transport, SetCustomTransport, SetAppInfo, cache the client
Store(p) ==
    /\ pc[p] = "store"
    /\ conns' = [conns EXCEPT ![loc[p].api] =
                   [@ EXCEPT !.transport = transportOf(loc[p].useTLS, cfg[p]),
                             !.appInfo = TRUE]]
    /\ clientCache' = CachePut(clientCache, loc[p].confSum, loc[p].api)
    /\ pc' = [pc EXCEPT ![p] = "return"]
    /\ UNCHANGED <<mutex, cfg, loc, returned, failed, calls, globalDebug>>
    /\ OnlyCache

\* line 94 and the deferred mutex.Unlock(): return api, nil
Return(p) ==
    /\ pc[p] = "return"
    /\ returned' = returned \cup {[id |-> Identity(cfg[p]), conn |-> loc[p].api]}
    /\ mutex' = Unlocked(p)
    /\ pc' = [pc EXCEPT ![p] = "idle"]
    /\ loc' = [loc EXCEPT ![p] = InitLoc]
    /\ cfg' = [cfg EXCEPT ![p] = NoConfig]
    /\ UNCHANGED <<clientCache, conns, failed, calls, globalDebug>>
    /\ OnlyCache

CacheNext ==
    \E p \in Callers :
        \/ \E config \in Configs : Call(p, config)
        \/ Lock(p)
        \/ Lookup(p)
        \/ New(p)
        \/ Store(p)
        \/ Return(p)

(***************************************************************************)
(* SUBNET authorization: cmd/subnet-utils.go lines 119-148, 339-433        *)
(***************************************************************************)
MaxOrgs == 3

NilErr == "nil"

\* lines 86-88: subnetRegisterURL()
subnetRegisterURL == <<"/api/cluster/register">>

\* line 147: subnetAuthHeaders(authToken)
subnetAuthHeaders(authToken) == { <<"Authorization", <<"Bearer ", authToken>>>> }

NoHeaders == {}

\* strings.TrimSpace on a typed line
RECURSIVE TrimLeft(_)
TrimLeft(s) == IF s # <<>> /\ Head(s) = " " THEN TrimLeft(Tail(s)) ELSE s

RECURSIVE TrimRight(_)
TrimRight(s) ==
    IF s # <<>> /\ s[Len(s)] = " " THEN TrimRight(SubSeq(s, 1, Len(s) - 1)) ELSE s

TrimSpace(s) == TrimRight(TrimLeft(s))

\* strconv.Atoi: an optional sign and decimal digits; anything else is an error
DigitChars == <<"0", "1", "2", "3", "4", "5", "6", "7", "8", "9">>

IsDigit(c) == \E i \in 1..10 : DigitChars[i] = c

DigitVal(c) == (CHOOSE i \in 1..10 : DigitChars[i] = c) - 1

RECURSIVE DigitsVal(_, _)
DigitsVal(s, acc) ==
    IF s = <<>> THEN acc ELSE DigitsVal(Tail(s), (acc * 10) + DigitVal(Head(s)))

Atoi(s) ==
    LET signed == s # <<>> /\ Head(s) \in {"-", "+"}
        digits == IF signed THEN Tail(s) ELSE s
        ok     == digits # <<>> /\ \A i \in 1..Len(digits) : IsDigit(digits[i])
    IN  [ok  |-> ok,
         val |-> IF ~ok THEN 0
                 ELSE IF signed /\ Head(s) = "-" THEN 0 - DigitsVal(digits, 0)
                 ELSE DigitsVal(digits, 0)]

\* inputs -------------------------------------------------------------------
APIKeyInputs == {"", "K1"}

LicenseInputs == {"", "L1"}

UsernameInputs == { <<>>, <<" ">>, <<"u">>, <<" ", "u", " ">> }

\* the JSON a login can answer with: access_token is a set, empty when the
\* field is missing
LoginResponses ==
    [mfa_required : BOOLEAN, mfa_token : {"", "m1"}, access_token : {{}, {"t1"}}]

MFAResponses ==
    [mfa_required : {FALSE}, mfa_token : {""}, access_token : {{}, {"t2"}}]

NoResponse == [mfa_required |-> FALSE, mfa_token |-> "", access_token |-> {}]

\* the organizations endpoint answers with 0..MaxOrgs organizations
OrgList(n) == [i \in 1..n |-> [company |-> <<"org", i>>, accountId |-> <<"acc", i>>]]

OrgLists == { OrgList(n) : n \in 0..MaxOrgs }

\* what the user can type at the organization prompt
ChoiceInputs ==
    { <<>>, <<"x">>, <<"0">>, <<"-", "1">>, <<"2", " ">> }
        \cup { <<DigitChars[n + 1]>> : n \in 1..(MaxOrgs + 1) }

NoAuth ==
    [caller |-> "", apiKey |-> "", license |-> "", username |-> <<>>,
     loginResp |-> NoResponse, respStr |-> NoResponse, token |-> "",
     e |-> NilErr, accErr |-> NilErr, orgs |-> <<>>, idx |-> 1, accID |-> <<>>,
     orgsOK |-> FALSE, choice |-> <<>>,
     loginRan |-> FALSE, loginOK |-> FALSE, mfaResp |-> NoResponse,
     url |-> <<>>, headers |-> NoHeaders, err |-> NilErr,
     result |-> "none"]

AuthQuiet ==
    /\ authPc = "idle"
    /\ auth = NoAuth
    /\ reqs = <<>>
    /\ prompts = <<>>

\* lines 413-421: registerClusterOnSubnet resolves the credentials (the
\* license only when there is no API key) and calls subnetURLWithAuth
registerClusterOnSubnet(apiKey, lic) ==
    /\ authPc = "idle"
    /\ apiKey # "" => lic = ""
    /\ auth' = [auth EXCEPT !.caller = "register", !.apiKey = apiKey, !.license = lic]
    /\ authPc' = "urlWithAuth"
    /\ UNCHANGED <<reqs, prompts>>
    /\ OnlyAuth

\* any other command calling subnetURLWithAuth(reqURL, apiKey, license)
subnetURLWithAuthCall(apiKey, lic) ==
    /\ authPc = "idle"
    /\ auth' = [auth EXCEPT !.caller = "direct", !.apiKey = apiKey, !.license = lic]
    /\ authPc' = "urlWithAuth"
    /\ UNCHANGED <<reqs, prompts>>
    /\ OnlyAuth

\* lines 121-127: which strategy applies
Strategy(apiKey, license) ==
    IF Len(apiKey) > 0 THEN "api_key"
    ELSE IF Len(license) > 0 THEN "license"
    ELSE "login"

\* lines 119-127, 143
subnetURLWithAuth ==
    /\ authPc = "urlWithAuth"
    /\ LET st == Strategy(auth.apiKey, auth.license)
       IN  CASE st = "api_key" ->
                  /\ auth' = [auth EXCEPT
                                !.url = subnetRegisterURL \o <<"?api_key=", auth.apiKey>>,
                                !.headers = NoHeaders, !.err = NilErr]
                  /\ authPc' = "authRet"
             [] st = "license" ->
                  /\ auth' = [auth EXCEPT
                                !.url = subnetRegisterURL \o <<"?license=", auth.license>>,
                                !.headers = NoHeaders, !.err = NilErr]
                  /\ authPc' = "authRet"
             [] st = "login" ->
                  /\ auth' = [auth EXCEPT !.loginRan = TRUE]
                  /\ authPc' = "loginUsername"
    /\ UNCHANGED <<reqs, prompts>>
    /\ OnlyAuth

\* lines 130-133: subnetLogin returned an error: return "", nil, e
LoginFailed(e) ==
    [auth EXCEPT !.e = e, !.url = <<>>, !.headers = NoHeaders, !.err = e]

\* lines 340-347: the username prompt
LoginUsername(typed) ==
    /\ authPc = "loginUsername"
    /\ prompts' = Append(prompts, "username")
    /\ LET username == TrimSpace(typed)
       IN  IF Len(username) = 0
           THEN /\ auth' = LoginFailed("Username cannot be empty")
                /\ authPc' = "authRet"
           ELSE /\ auth' = [auth EXCEPT !.username = username]
                /\ authPc' = "loginPost"
    /\ UNCHANGED reqs
    /\ OnlyAuth

\* a check that takes any MFA session token for the requirement
mfaRequiredIfSession(respStr) == respStr.mfa_required \/ respStr.mfa_token # ""

\* line 362: gjson.Get(respStr, "mfa_required").Bool()
mfaRequiredOf(respStr) == respStr.mfa_required

\* lines 349-363: the password prompt and the login request
LoginPost(ok, resp) ==
    /\ authPc = "loginPost"
    /\ prompts' = Append(prompts, "password")
    /\ reqs' = Append(reqs, [to |-> "login", url |-> <<"/api/auth/login">>,
                             headers |-> NoHeaders])
    /\ IF ~ok
       THEN /\ auth' = LoginFailed("Request failed")
            /\ authPc' = "authRet"
       ELSE /\ auth' = [auth EXCEPT !.loginOK = TRUE, !.loginResp = resp,
                                     !.respStr = resp]
            /\ authPc' = IF mfaRequiredOf(resp) THEN "mfaPost" ELSE "token"
    /\ OnlyAuth

\* a second-factor step that keeps the first response
respAfterMFAKept(loginResp, mfaResp) == loginResp

\* line 370: respStr, e = subnetPostReq(subnetMFAURL(), ...)
respAfterMFA(loginResp, mfaResp) == mfaResp

\* lines 364-373: the one-time-code prompt and the MFA request
MFAPost(ok, resp) ==
    /\ authPc = "mfaPost"
    /\ prompts' = Append(prompts, "otp")
    /\ reqs' = Append(reqs, [to |-> "mfa", url |-> <<"/api/auth/mfa-login">>,
                             headers |-> NoHeaders])
    /\ IF ~ok
       THEN /\ auth' = LoginFailed("Request failed")
            /\ authPc' = "authRet"
       ELSE /\ auth' = [auth EXCEPT !.mfaResp = resp,
                                     !.respStr = respAfterMFA(auth.respStr, resp)]
            /\ authPc' = "token"
    /\ OnlyAuth

\* lines 376-380 and 134: extract the token, build the headers
ExtractToken ==
    /\ authPc = "token"
    /\ IF auth.respStr.access_token # {}
       THEN /\ auth' = [auth EXCEPT
                          !.token = CHOOSE t \in auth.respStr.access_token : TRUE,
                          !.headers = subnetAuthHeaders(
                              CHOOSE t \in auth.respStr.access_token : TRUE)]
            /\ authPc' = "orgsGet"
       ELSE /\ auth' = LoginFailed("access token not found in response")
            /\ authPc' = "authRet"
    /\ UNCHANGED <<reqs, prompts>>
    /\ OnlyAuth

\* line 138: return "", headers, e -- e is subnetLogin's error, nil here
accIDError(e, accErr) == e

\* lines 136-139: getSubnetAccID returned accErr
AccIDFailed(accErr) ==
    [auth EXCEPT !.accErr = accErr, !.url = <<>>,
                 !.err = accIDError(auth.e, accErr)]

\* lines 384-391: the organizations request
OrgsGet(ok, orgs) ==
    /\ authPc = "orgsGet"
    /\ reqs' = Append(reqs, [to |-> "orgs", url |-> <<"/api/auth/organizations">>,
                             headers |-> auth.headers])
    /\ IF ~ok
       THEN /\ auth' = AccIDFailed("Request failed")
            /\ authPc' = "authRet"
       ELSE /\ auth' = [auth EXCEPT !.orgs = orgs, !.idx = 1, !.orgsOK = TRUE]
            /\ authPc' = IF Len(orgs) > 1 THEN "orgChoice" ELSE "orgIndex"
    /\ UNCHANGED prompts
    /\ OnlyAuth

\* a bound check that also refuses the last organization
choiceTooLargeAtLen(idx, orgs) == idx >= Len(orgs)

\* line 404: the only check made on the parsed choice
choiceTooLarge(idx, orgs) == idx > Len(orgs)

\* lines 392-407: list the organizations, read and check the choice
OrgChoice(typed) ==
    /\ authPc = "orgChoice"
    /\ prompts' = Append(prompts, "organization")
    /\ LET n == Atoi(typed)
       IN  IF ~n.ok
           THEN /\ auth' = [AccIDFailed("strconv.Atoi: invalid syntax")
                              EXCEPT !.idx = 0, !.choice = typed]
                /\ authPc' = "authRet"
           ELSE IF choiceTooLarge(n.val, auth.orgs)
           THEN /\ auth' = [AccIDFailed("Invalid choice for organization.")
                              EXCEPT !.idx = n.val, !.choice = typed]
                /\ authPc' = "authRet"
           ELSE /\ auth' = [auth EXCEPT !.idx = n.val, !.choice = typed]
                /\ authPc' = "orgIndex"
    /\ UNCHANGED reqs
    /\ OnlyAuth

\* lines 409 and 141: orgs[idx-1]; an index outside the slice panics
OrgIndex ==
    /\ authPc = "orgIndex"
    /\ IF auth.idx - 1 \in 0..(Len(auth.orgs) - 1)
       THEN /\ auth' = [auth EXCEPT
                          !.accID = auth.orgs[auth.idx].accountId,
                          !.url = subnetRegisterURL
                                     \o <<"?aid=", auth.orgs[auth.idx].accountId>>,
                          !.err = NilErr]
            /\ authPc' = "authRet"
       ELSE /\ auth' = [auth EXCEPT !.result = "panic: index out of range"]
            /\ authPc' = "panic"
    /\ UNCHANGED <<reqs, prompts>>
    /\ OnlyAuth

\* subnetURLWithAuth has returned to a caller other than registerClusterOnSubnet
DirectReturn ==
    /\ authPc = "authRet"
    /\ auth.caller = "direct"
    /\ auth' = [auth EXCEPT !.result = IF auth.err = NilErr THEN "ok" ELSE "error"]
    /\ authPc' = "done"
    /\ UNCHANGED <<reqs, prompts>>
    /\ OnlyAuth

\* lines 421-432: back in registerClusterOnSubnet; generateRegToken cannot
\* fail on a typed ClusterRegistrationInfo; a POST to an empty URL is
\* attempted and fails in the HTTP client
RegisterPost(ok) ==
    /\ authPc = "authRet"
    /\ auth.caller = "register"
    /\ IF auth.err # NilErr
       THEN /\ auth' = [auth EXCEPT !.result = "error"]
            /\ reqs' = reqs
       ELSE /\ reqs' = Append(reqs, [to |-> "register", url |-> auth.url,
                                     headers |-> auth.headers])
            /\ auth' = [auth EXCEPT
                          !.result = IF ok /\ auth.url # <<>> THEN "ok" ELSE "error"]
    /\ authPc' = "done"
    /\ UNCHANGED prompts
    /\ OnlyAuth

AuthNext ==
    \/ \E k \in APIKeyInputs, l \in LicenseInputs : registerClusterOnSubnet(k, l)
    \/ \E k \in APIKeyInputs, l \in LicenseInputs : subnetURLWithAuthCall(k, l)
    \/ subnetURLWithAuth
    \/ \E typed \in UsernameInputs : LoginUsername(typed)
    \/ \E ok \in BOOLEAN, resp \in LoginResponses : LoginPost(ok, resp)
    \/ \E ok \in BOOLEAN, resp \in MFAResponses : MFAPost(ok, resp)
    \/ ExtractToken
    \/ \E ok \in BOOLEAN, orgs \in OrgLists : OrgsGet(ok, orgs)
    \/ \E typed \in ChoiceInputs : OrgChoice(typed)
    \/ OrgIndex
    \/ DirectReturn
    \/ \E ok \in BOOLEAN : RegisterPost(ok)

(***************************************************************************)
(* Registration info: cmd/subnet-utils.go lines 289-328                    *)
(***************************************************************************)
MaxServers == 3

MaxPool == 3

\* the disks one server reports: none, or a fresh one and a part-used one
DiskLists ==
    { <<>>,
      << [TotalSpace |-> 2, UsedSpace |-> 0], [TotalSpace |-> 2, UsedSpace |-> 1] >> }

ServerInfos == [PoolNumber : 0..MaxPool, Disks : DiskLists, Version : {"v1"}]

RECURSIVE ServerLists(_)
\* admInfo.Servers: every list of at most n servers
ServerLists(n) ==
    IF n = 0 THEN { <<>> }
    ELSE LET shorter == ServerLists(n - 1)
         IN  shorter \cup { Append(l, srvr) : l \in { x \in shorter : Len(x) = n - 1 },
                                                srvr \in ServerInfos }

NoReg ==
    [servers |-> <<>>, i |-> 0, noOfPools |-> 0, noOfDrives |-> 0,
     result |-> [kind |-> "none"]]

RegQuiet ==
    /\ regPc = "idle"
    /\ reg = NoReg

\* lines 290-291: getClusterRegInfo(admInfo, clusterName) and its two counters
GetClusterRegInfo ==
    /\ regPc = "idle"
    /\ \E servers \in ServerLists(MaxServers) :
          reg' = [NoReg EXCEPT !.servers = servers, !.i = 1,
                              !.noOfPools = 1, !.noOfDrives = 0]
    /\ regPc' = "loop"
    /\ OnlyReg

\* a pool count that follows the server seen last
poolStepLast(noOfPools, srvr) == srvr.PoolNumber

\* lines 293-295: if srvr.PoolNumber > noOfPools { noOfPools = srvr.PoolNumber }
poolStep(noOfPools, srvr) ==
    IF srvr.PoolNumber > noOfPools THEN srvr.PoolNumber ELSE noOfPools

\* lines 292-297: one turn of the loop over admInfo.Servers
RegLoop ==
    /\ regPc = "loop"
    /\ reg.i <= Len(reg.servers)
    /\ LET srvr == reg.servers[reg.i]
       IN  reg' = [reg EXCEPT !.noOfPools = poolStep(reg.noOfPools, srvr),
                              !.noOfDrives = @ + Len(srvr.Disks),
                              !.i = @ + 1]
    /\ regPc' = "loop"
    /\ OnlyReg

RECURSIVE SumSpace(_, _)
\* lines 322-325: the inner loop over one server's disks
SumSpace(disks, field) ==
    IF disks = <<>> THEN 0
    ELSE (IF field = "total" THEN Head(disks).TotalSpace ELSE Head(disks).UsedSpace)
            + SumSpace(Tail(disks), field)

RECURSIVE getDriveSpaceInfo(_, _)
\* lines 318-328: total and used space added up over every disk of every server
getDriveSpaceInfo(servers, field) ==
    IF servers = <<>> THEN 0
    ELSE SumSpace(Head(servers).Disks, field)
            + getDriveSpaceInfo(Tail(servers), field)

\* lines 299-315: the returned value; Servers[0] of an empty list panics
RegReturn ==
    /\ regPc = "loop"
    /\ reg.i > Len(reg.servers)
    /\ IF reg.servers = <<>>
       THEN /\ reg' = [reg EXCEPT !.result =
                          [kind |-> "panic: index out of range"]]
            /\ regPc' = "panic"
       ELSE /\ reg' = [reg EXCEPT !.result =
                          [kind            |-> "info",
                           MinioVersion    |-> reg.servers[1].Version,
                           NoOfServerPools |-> reg.noOfPools,
                           NoOfServers     |-> Len(reg.servers),
                           NoOfDrives      |-> reg.noOfDrives,
                           TotalDriveSpace |-> getDriveSpaceInfo(reg.servers, "total"),
                           UsedDriveSpace  |-> getDriveSpaceInfo(reg.servers, "used")]]
            /\ regPc' = "done"
    /\ OnlyReg

\* the caller has the value; the next call may start
RegDone ==
    /\ regPc = "done"
    /\ regPc' = "idle"
    /\ reg' = NoReg
    /\ OnlyReg

RegNext ==
    \/ GetClusterRegInfo
    \/ RegLoop
    \/ RegReturn
    \/ RegDone

(***************************************************************************)
(* Credential resolution: cmd/subnet-utils.go lines 206-269                *)
(***************************************************************************)
Aliases == {"m1", "m2"}

SubnetKeys == {"api_key", "license"}

\* what GetConfigKV("subnet") can hold: the sub-system name followed by
\* key=value tokens, license first (the order SetConfigKV's string uses)
LicenseTokens == { <<>>, << <<"license", "L1">> >> }

APIKeyTokens == { <<>>, << <<"api_key", "">> >>, << <<"api_key", "K1">> >> }

SubnetBufs == { <<"subnet">> \o l \o k : l \in LicenseTokens, k \in APIKeyTokens }

\* a cluster without the subnet sub-system, or one with it and some config
Clusters ==
    { [help |-> {"api", "region"}, buf |-> <<>>] }
        \cup { [help |-> {"api", "region", "subnet"}, buf |-> b] : b \in SubnetBufs }

AliasRecords == [APIKey : {"", "A1"}, License : {"", "B1"}]

\* the zero value a Go map yields for a missing alias
ZeroAlias == [APIKey |-> "", License |-> ""]

\* config files that know every alias, or only the first
LocalConfigs == [Aliases -> AliasRecords] \cup [{"m1"} -> AliasRecords]

aliasConfig(alias) == IF alias \in DOMAIN mcCfg THEN mcCfg[alias] ELSE ZeroAlias

\* op: "get" for the getters, "set" for setSubnetAPIKeyConfig, "skip" for an
\* extractAndSaveAPIKey that found no key; minio0 and mcCfg0 are the two stores
\* as the setter found them; lastSet is the write completed just before
NoCredCall ==
    [key |-> "", alias |-> "", clusterErr |-> FALSE, found |-> "unknown",
     localLoaded |-> FALSE, op |-> "get", apiKey |-> "", minio0 |-> <<>>,
     mcCfg0 |-> <<>>, lastSet |-> <<>>]

NoCredRes == [kind |-> "none", value |-> "", msg |-> ""]

CredQuiet ==
    /\ minio = [a \in Aliases |-> CHOOSE c \in Clusters : c.buf = <<>>]
    /\ mcCfg = [a \in {} |-> ZeroAlias]
    /\ credPc = "idle"
    /\ credCall = NoCredCall
    /\ credRes = NoCredRes

CredInit ==
    /\ CacheQuiet
    /\ AuthQuiet
    /\ RegQuiet
    /\ minio \in [Aliases -> Clusters]
    /\ mcCfg \in LocalConfigs
    /\ credPc = "idle"
    /\ credCall = NoCredCall
    /\ credRes = NoCredRes

\* an error check that lets the call go on
fatalIfIgnored(err, next) == next

\* fatalIf(err, msg): exits the process when err is not nil
fatalIf(err, next) == IF err THEN "fatal" ELSE next

Fatal(msg) == [kind |-> "fatal", value |-> "", msg |-> msg]

\* lines 262-268: the help lists a key named "subnet"
minioConfigSupportsSubnet(help) == "subnet" \in help

\* madmin.ParseSubSysTarget: the tokens after the sub-system name, as KVS
ParseSubSysTarget(buf) ==
    [i \in 1..(Len(buf) - 1) |-> [Key |-> buf[i + 1][1], Value |-> buf[i + 1][2]]]

RECURSIVE lookupKV(_, _)
\* lines 220-226: the first kv with the key, or (false, "")
lookupKV(kvs, key) ==
    IF kvs = <<>> THEN [supported |-> FALSE, value |-> ""]
    ELSE IF Head(kvs).Key = key THEN [supported |-> TRUE, value |-> Head(kvs).Value]
    ELSE lookupKV(Tail(kvs), key)

\* a getter that falls back to the local record when the server value is empty
serverWinsIfNonEmpty(r) == r.supported /\ r.value # ""

\* lines 232 and 243: if supported { return ... }
serverWins(r) == r.supported

\* a getter that reads the API key field for either key
localFieldAPIKeyOnly(rec, key) == rec.APIKey

\* lines 237 and 248: the alias record's field for the key
localField(rec, key) == IF key = "api_key" THEN rec.APIKey ELSE rec.License

\* lines 229-231, 240-242: getSubnetAPIKeyFromConfig / getSubnetLicenseFromConfig
GetKeyFromConfig(key, alias) ==
    /\ credPc = "idle"
    /\ credCall' = [NoCredCall EXCEPT
                       !.key = key, !.alias = alias,
                       !.lastSet = IF credCall.op = "set"
                                   THEN <<credCall.alias, credCall.apiKey>>
                                   ELSE <<>>]
    /\ credRes' = NoCredRes
    /\ credPc' = "newAdminClient"
    /\ UNCHANGED <<minio, mcCfg>>
    /\ OnlyCred

\* the call record and result after a step whose error is checked with fatalIf
CheckedCall(err, clusterSide) ==
    [credCall EXCEPT !.clusterErr = @ \/ (err /\ clusterSide)]

CheckedRes(nextPc, msg) == IF nextPc = "fatal" THEN Fatal(msg) ELSE credRes

\* lines 207-208: newAdminClient(alias)
CredNewAdminClient(err) ==
    /\ credPc = "newAdminClient"
    /\ credPc' = fatalIf(err, "probe")
    /\ credCall' = CheckedCall(err, FALSE)
    /\ credRes' = CheckedRes(credPc', "Unable to initialize admin connection.")
    /\ UNCHANGED <<minio, mcCfg>>
    /\ OnlyCred

\* lines 210, 258-269: minioConfigSupportsSubnet(client)
CredProbe(err) ==
    /\ credPc = "probe"
    /\ credPc' = fatalIf(err, IF minioConfigSupportsSubnet(minio[credCall.alias].help)
                              THEN "helpSubnet" ELSE "notFound")
    /\ credCall' = CheckedCall(err, TRUE)
    /\ credRes' = CheckedRes(credPc', "Unable to get minio config keys")
    /\ UNCHANGED <<minio, mcCfg>>
    /\ OnlyCred

\* lines 211-212: client.HelpConfigKV(ctx, "subnet", "", false)
CredHelpSubnet(err) ==
    /\ credPc = "helpSubnet"
    /\ credPc' = fatalIf(err, "getConfigKV")
    /\ credCall' = CheckedCall(err, TRUE)
    /\ credRes' = CheckedRes(credPc', "Unable to get config keys for SUBNET")
    /\ UNCHANGED <<minio, mcCfg>>
    /\ OnlyCred

\* lines 214-215: client.GetConfigKV(ctx, "subnet")
CredGetConfigKV(err) ==
    /\ credPc = "getConfigKV"
    /\ credPc' = fatalIf(err, "parse")
    /\ credCall' = CheckedCall(err, TRUE)
    /\ credRes' = CheckedRes(credPc', "Unable to get server SUBNET config")
    /\ UNCHANGED <<minio, mcCfg>>
    /\ OnlyCred

\* lines 217-218: madmin.ParseSubSysTarget(buf, sh)
CredParse(err) ==
    /\ credPc = "parse"
    /\ credPc' = fatalIf(err, "scan")
    /\ credCall' = CheckedCall(err, TRUE)
    /\ credRes' = CheckedRes(credPc', "Unable to parse sub-system target 'subnet'")
    /\ UNCHANGED <<minio, mcCfg>>
    /\ OnlyCred

\* lines 220-226 and the getter's "if supported" (232-234, 243-245)
CredScan ==
    /\ credPc = "scan"
    /\ credCall.op = "get"
    /\ LET r == lookupKV(ParseSubSysTarget(minio[credCall.alias].buf), credCall.key)
       IN  /\ credCall' = [credCall EXCEPT
                             !.found = IF r.supported THEN "yes" ELSE "no"]
           /\ IF serverWins(r)
              THEN /\ credPc' = "done"
                   /\ credRes' = [kind |-> "value", value |-> r.value, msg |-> ""]
              ELSE /\ credPc' = "local"
                   /\ credRes' = credRes
    /\ UNCHANGED <<minio, mcCfg>>
    /\ OnlyCred

\* line 226 reached without a subnet sub-system: return false, ""
CredNotSupported ==
    /\ credPc = "notFound"
    /\ credCall.op = "get"
    /\ credCall' = [credCall EXCEPT !.found = "no"]
    /\ credPc' = "local"
    /\ UNCHANGED <<minio, mcCfg, credRes>>
    /\ OnlyCred

\* lines 237/248 and mcConfig (251-256): load the local config, read the field
CredLocal(err) ==
    /\ credPc = "local"
    /\ credPc' = fatalIf(err, "done")
    /\ credCall' = [credCall EXCEPT !.localLoaded = TRUE]
    /\ credRes' = IF credPc' = "fatal"
                  THEN Fatal("Unable to access configuration file.")
                  ELSE [kind |-> "value",
                        value |-> localField(aliasConfig(credCall.alias), credCall.key),
                        msg |-> ""]
    /\ UNCHANGED <<minio, mcCfg>>
    /\ OnlyCred

\* the getter has returned; the next call may start
CredReturn ==
    /\ credPc = "done"
    /\ credPc' = "idle"
    /\ UNCHANGED <<minio, mcCfg, credCall, credRes>>
    /\ OnlyCred

(***************************************************************************)
(* API-key write-back: cmd/subnet-utils.go lines 271-287, 435-441          *)
(***************************************************************************)
\* the registration responses: without api_key, with an empty one, with a key
SaveResponses == { <<>>, << <<"api_key", "">> >>, << <<"api_key", "K2">> >> }

RECURSIVE gjsonGetString(_, _)
\* gjson.Parse(resp).Get(key).String(): the member's string, "" when missing
gjsonGetString(resp, key) ==
    IF resp = <<>> THEN ""
    ELSE IF Head(resp)[1] = key THEN Head(resp)[2]
    ELSE gjsonGetString(Tail(resp), key)

\* a configuration string that puts the key into the license entry
subnetConfigStrSwapped(apiKey) ==
    <<"subnet", <<"license", apiKey>>, <<"api_key", "">> >>

\* line 278: "subnet license= api_key=" + apiKey, as SetConfigKV stores it
subnetConfigStr(apiKey) ==
    <<"subnet", <<"license", "">>, <<"api_key", apiKey>> >>

\* a setter that never writes to the cluster
ownsCredentialNever(r) == FALSE

\* lines 272-273: supported, _ := getSubnetKeyFromMinIOConfig(...); if supported
ownsCredential(r) == r.supported

\* lines 271-272: setSubnetAPIKeyConfig starts with the cluster lookup
setCall(alias, apiKey) ==
    [NoCredCall EXCEPT !.op = "set", !.key = "api_key", !.alias = alias,
                       !.apiKey = apiKey, !.minio0 = minio, !.mcCfg0 = mcCfg]

\* lines 436-440: extractAndSaveAPIKey(alias, resp)
ExtractAndSaveAPIKey(alias, resp) ==
    /\ credPc = "idle"
    /\ LET subnetAPIKey == gjsonGetString(resp, "api_key")
       IN  IF subnetAPIKey # ""
           THEN /\ credCall' = setCall(alias, subnetAPIKey)
                /\ credPc' = "newAdminClient"
           ELSE /\ credCall' = [setCall(alias, "") EXCEPT !.op = "skip"]
                /\ credPc' = "setDone"
    /\ credRes' = NoCredRes
    /\ UNCHANGED <<minio, mcCfg>>
    /\ OnlyCred

\* lines 220-226 and 272-273 for the setter: does the cluster hold api_key
SetScan ==
    /\ credPc = "scan"
    /\ credCall.op = "set"
    /\ LET r == lookupKV(ParseSubSysTarget(minio[credCall.alias].buf), credCall.key)
       IN  credPc' = IF ownsCredential(r) THEN "setClient" ELSE "setLocal"
    /\ UNCHANGED <<minio, mcCfg, credCall, credRes>>
    /\ OnlyCred

\* line 226 for the setter: no subnet sub-system, so not supported
SetNotSupported ==
    /\ credPc = "notFound"
    /\ credCall.op = "set"
    /\ credPc' = "setLocal"
    /\ UNCHANGED <<minio, mcCfg, credCall, credRes>>
    /\ OnlyCred

\* lines 275-276: newAdminClient(alias) once more
SetClient(err) ==
    /\ credPc = "setClient"
    /\ credPc' = fatalIf(err, "setConfigKV")
    /\ credRes' = CheckedRes(credPc', "Unable to initialize admin connection.")
    /\ UNCHANGED <<minio, mcCfg, credCall>>
    /\ OnlyCred

\* lines 278-281: client.SetConfigKV(ctx, configStr)
SetConfigKV(err) ==
    /\ credPc = "setConfigKV"
    /\ credPc' = fatalIf(err, "setDone")
    /\ credRes' = CheckedRes(credPc', "Unable to set SUBNET API key config on minio")
    /\ minio' = IF err THEN minio
                ELSE [minio EXCEPT ![credCall.alias].buf =
                                        subnetConfigStr(credCall.apiKey)]
    /\ UNCHANGED <<mcCfg, credCall>>
    /\ OnlyCred

\* lines 283 and 251-256: mcCfg := mcConfig()
SetLocal(err) ==
    /\ credPc = "setLocal"
    /\ credPc' = fatalIf(err, "setAlias")
    /\ credRes' = CheckedRes(credPc', "Unable to access configuration file.")
    /\ UNCHANGED <<minio, mcCfg, credCall>>
    /\ OnlyCred

\* the local configuration after an update in place of one alias record
setAlias(cfgFile, alias, aliasCfg) ==
    [a \in DOMAIN cfgFile \cup {alias} |->
        IF a = alias THEN aliasCfg ELSE cfgFile[a]]

\* lines 284-286: aliasCfg.APIKey = apiKey; setAlias(alias, aliasCfg)
SetAlias ==
    /\ credPc = "setAlias"
    /\ mcCfg' = setAlias(mcCfg, credCall.alias,
                         [aliasConfig(credCall.alias) EXCEPT
                             !.APIKey = credCall.apiKey])
    /\ credPc' = "setDone"
    /\ UNCHANGED <<minio, credCall, credRes>>
    /\ OnlyCred

\* the write-back has returned; the next call may start
SetReturn ==
    /\ credPc = "setDone"
    /\ credPc' = "idle"
    /\ UNCHANGED <<minio, mcCfg, credCall, credRes>>
    /\ OnlyCred

CredNext ==
    \/ \E key \in SubnetKeys, alias \in Aliases : GetKeyFromConfig(key, alias)
    \/ \E err \in BOOLEAN : CredNewAdminClient(err)
    \/ \E err \in BOOLEAN : CredProbe(err)
    \/ \E err \in BOOLEAN : CredHelpSubnet(err)
    \/ \E err \in BOOLEAN : CredGetConfigKV(err)
    \/ \E err \in BOOLEAN : CredParse(err)
    \/ CredScan
    \/ CredNotSupported
    \/ \E err \in BOOLEAN : CredLocal(err)
    \/ CredReturn
    \/ \E alias \in Aliases, resp \in SaveResponses : ExtractAndSaveAPIKey(alias, resp)
    \/ SetScan
    \/ SetNotSupported
    \/ \E err \in BOOLEAN : SetClient(err)
    \/ \E err \in BOOLEAN : SetConfigKV(err)
    \/ \E err \in BOOLEAN : SetLocal(err)
    \/ SetAlias
    \/ SetReturn

SpecCred == CredInit /\ [][CredNext]_vars

AuthInit == CacheQuiet /\ CredQuiet /\ AuthQuiet /\ RegQuiet

SpecAuth == AuthInit /\ [][AuthNext]_vars

CacheInit ==
    CacheStart /\ globalDebug \in BOOLEAN /\ CredQuiet /\ AuthQuiet /\ RegQuiet

SpecCache == CacheInit /\ [][CacheNext]_vars

RegInit == CacheQuiet /\ CredQuiet /\ AuthQuiet /\ RegQuiet

SpecReg == RegInit /\ [][RegNext]_vars

(***************************************************************************)
(* Connection factory: claims                                              *)
(***************************************************************************)
ConnIdentity(c) == <<c.endpoint, c.accessKey, c.secretKey>>

InCritical(p) == pc[p] \in {"lookup", "new", "store", "return"}

\* C1: two successful calls whose configs have the same (host, access key,
\* secret key) return the very same client instance, whatever other calls
\* happened in between.
C1_SameIdentitySameClient ==
    \A r1, r2 \in returned : r1.id = r2.id => r1.conn = r2.conn

\* a repeated identity is about to be answered from the cache, after calls
\* with another identity have completed as well
C1_Witness ==
    \E p \in Callers :
        /\ pc[p] = "return"
        /\ [id |-> Identity(cfg[p]), conn |-> loc[p].api] \in returned
        /\ \E r \in returned : r.id # Identity(cfg[p]) /\ r.conn # loc[p].api

\* C2: with concurrent callers the lookup-or-insert is atomic: at most one
\* caller is between Lock and Unlock, no identity ever has two constructed
\* clients, and a caller holding a client holds the one constructed for its
\* identity whenever one exists.
C2_AtomicLookupOrInsert ==
    /\ \A p, q \in Callers : InCritical(p) /\ InCritical(q) => p = q
    /\ \A i, j \in DOMAIN conns :
          ConnIdentity(conns[i]) = ConnIdentity(conns[j]) => i = j
    /\ \A p \in Callers : \A i \in DOMAIN conns :
          (loc[p].api # NoClient /\ ConnIdentity(conns[i]) = Identity(cfg[p]))
              => loc[p].api = i

\* one caller has constructed a client and still holds the lock while another
\* caller with the same identity waits for the lock
C2_Witness ==
    \E p, q \in Callers :
        /\ p # q
        /\ pc[p] = "store"
        /\ pc[q] = "lock"
        /\ Identity(cfg[p]) = Identity(cfg[q])

\* C3: two successful calls whose (host, access key, secret key) tuples differ
\* in any component return distinct client instances.
C3_DistinctIdentityDistinctClient ==
    \A r1, r2 \in returned : r1.id # r2.id => r1.conn # r2.conn

\* the scheme the caller's own endpoint URL names
CallerScheme(p) == urlParse(cfg[p].HostURL).Scheme

\* C14: in any sequence of calls, the connection a successful call returns
\* has TLS disabled when the caller's endpoint scheme is http and enabled
\* otherwise.
C14_TLSFollowsScheme ==
    \A p \in Callers :
        pc[p] = "return" =>
            (conns[loc[p].api].secure <=> CallerScheme(p) # <<"h","t","t","p">>)

\* C15: in any sequence of calls, a caller whose config leaves Insecure
\* unset never receives a connection whose transport skips certificate
\* verification.
C15_NoSkipVerifyUnlessAsked ==
    \A p \in Callers :
        (pc[p] = "return" /\ ~cfg[p].Insecure) =>
            ~conns[loc[p].api].transport.skipVerify

\* C18: the cache only grows: a step of the factory keeps every mapped
\* fingerprint mapped, and mapped to the same client.
C18_CacheOnlyGrows ==
    [][\A k \in DOMAIN clientCache :
          k \in DOMAIN clientCache' /\ clientCache'[k] = clientCache[k]]_vars

\* the cache holds two fingerprints and a call is answered with the client
\* stored first
C18_Witness ==
    \E p \in Callers :
        /\ pc[p] = "return"
        /\ Cardinality(DOMAIN clientCache) >= 2
        /\ loc[p].api = 1

\* C19: a failed construction returns an error and no client, leaves the
\* cache as it was and releases the lock; a later call with the same
\* identity is not answered from the cache but constructs again.
C19_ConstructionFailure ==
    /\ [][\A p \in Callers :
            (pc[p] = "new" /\ madminNewFails(loc[p].hostName) /\ pc'[p] # "new")
                => /\ pc'[p] = "idle"
                   /\ mutex' = "free"
                   /\ clientCache' = clientCache
                   /\ conns' = conns
                   /\ returned' = returned]_vars
    /\ [](\A p \in Callers :
            pc[p] = "return" => Identity(cfg[p]) \notin failed)

(***************************************************************************)
(* Credential resolution: claims                                           *)
(***************************************************************************)
\* read straight from the cluster's state: the sub-system is listed and its
\* configuration has a token for the key
ClusterHas(alias, key) ==
    /\ "subnet" \in minio[alias].help
    /\ \E i \in 2..Len(minio[alias].buf) : minio[alias].buf[i][1] = key

ClusterValue(alias, key) ==
    LET buf == minio[alias].buf
        i   == CHOOSE j \in 2..Len(buf) :
                  /\ buf[j][1] = key
                  /\ \A k \in 2..(j - 1) : buf[k][1] # key
    IN  buf[i][2]

\* read straight from the local configuration
LocalValue(alias, key) ==
    IF alias \notin DOMAIN mcCfg THEN ""
    ELSE IF key = "api_key" THEN mcCfg[alias].APIKey
    ELSE mcCfg[alias].License

\* C4: when the cluster lists the subnet sub-system and its configuration
\* holds the requested key, the getter returns the cluster's value verbatim,
\* whatever the local alias record holds, and never loads the local config.
C4_ServerWins ==
    (credPc = "done" /\ ClusterHas(credCall.alias, credCall.key))
        => /\ credRes.kind = "value"
           /\ credRes.value = ClusterValue(credCall.alias, credCall.key)
           /\ ~credCall.localLoaded

\* the cluster holds an empty api_key, the alias record a non-empty one, and
\* the getter has returned
C4_Witness ==
    /\ credPc = "done"
    /\ credCall.key = "api_key"
    /\ ClusterHas(credCall.alias, "api_key")
    /\ ClusterValue(credCall.alias, "api_key") = ""
    /\ LocalValue(credCall.alias, "api_key") = "A1"

\* C5 as stated: whenever the cluster source does not yield the key, the call
\* returns exactly the local alias record's field and no error is raised.
C5_LocalFallbackNoError ==
    (credCall.found = "no" /\ ~ClusterHas(credCall.alias, credCall.key)
       /\ credPc \in {"done", "fatal"})
        => /\ credPc = "done"
           /\ credRes.kind = "value"
           /\ credRes.value = LocalValue(credCall.alias, credCall.key)

\* C5 as amended: whenever the cluster source does not yield the key, a
\* returned value is exactly the local alias record's field (possibly empty;
\* a missing alias or field is no error); the only failure on this path is
\* the fatal exit when the local configuration file cannot be loaded.
C5_LocalFallback ==
    (credCall.found = "no" /\ ~ClusterHas(credCall.alias, credCall.key))
        => /\ credPc = "done" =>
                /\ credRes.kind = "value"
                /\ credRes.value = LocalValue(credCall.alias, credCall.key)
           /\ credPc = "fatal" =>
                credRes = Fatal("Unable to access configuration file.")
           /\ credPc \in {"local", "done", "fatal", "idle"}

\* the cluster has the sub-system but no license entry, and the getter has
\* returned the alias record's license
C5_Witness ==
    /\ credPc = "done"
    /\ credCall.found = "no"
    /\ credCall.key = "license"
    /\ "subnet" \in minio[credCall.alias].help
    /\ ~ClusterHas(credCall.alias, "license")
    /\ credRes.value = "B1"

\* C6: if the capability probe, the fetch of the cluster's subnet
\* configuration or its parsing fails, the operation ends fatally: no value
\* is returned and the local configuration is never consulted.
C6_ClusterFailureIsFatal ==
    credCall.clusterErr
        => /\ credPc = "fatal"
           /\ credRes.kind = "fatal"
           /\ ~credCall.localLoaded

\* parsing failed for an alias whose local record holds a credential
C6_Witness ==
    /\ credCall.clusterErr
    /\ credRes = Fatal("Unable to parse sub-system target 'subnet'")
    /\ LocalValue(credCall.alias, credCall.key) # ""

(***************************************************************************)
(* SUBNET authorization: claims                                            *)
(***************************************************************************)
ReqCount(to) == Cardinality({ i \in DOMAIN reqs : reqs[i].to = to })

AccountIds(orgs) == { orgs[i].accountId : i \in DOMAIN orgs }

\* C7: subnetURLWithAuth applies exactly one strategy, in fixed order: a
\* non-empty API key yields only ?api_key=, else a non-empty license yields
\* only ?license=, else the login runs and the result carries the Bearer
\* header plus ?aid=; the login runs iff both API key and license are empty.
C7_ExactlyOneStrategy ==
    /\ auth.loginRan <=>
          (authPc \notin {"idle", "urlWithAuth"}
             /\ auth.apiKey = "" /\ auth.license = "")
    /\ (authPc = "authRet" /\ auth.err = NilErr) =>
          IF auth.apiKey # ""
          THEN /\ auth.url = subnetRegisterURL \o <<"?api_key=", auth.apiKey>>
               /\ auth.headers = NoHeaders
          ELSE IF auth.license # ""
          THEN /\ auth.url = subnetRegisterURL \o <<"?license=", auth.license>>
               /\ auth.headers = NoHeaders
          ELSE /\ auth.token # ""
               /\ auth.headers = subnetAuthHeaders(auth.token)
               /\ \E id \in AccountIds(auth.orgs) :
                     auth.url = subnetRegisterURL \o <<"?aid=", id>>

\* C8: if the login or the organization lookup fails, subnetURLWithAuth
\* returns a non-nil error and registerClusterOnSubnet returns it without
\* sending the registration POST.
C8_AllOrNothing ==
    (auth.e # NilErr \/ auth.accErr # NilErr)
        => /\ authPc \in {"authRet", "done"} => auth.err # NilErr
           /\ authPc = "done" => auth.result = "error"
           /\ ReqCount("register") = 0

\* C9: when the login response has mfa_required true, exactly one request
\* goes to the MFA endpoint, after the login request and before the token is
\* extracted, and the token returned is the MFA response's access token.
C9_MFAOnceBeforeToken ==
    (auth.loginOK /\ auth.loginResp.mfa_required)
        => /\ authPc = "mfaPost" => (ReqCount("mfa") = 0 /\ auth.token = "")
           /\ authPc # "mfaPost" =>
                /\ ReqCount("mfa") = 1
                /\ Len(reqs) >= 2 /\ reqs[1].to = "login" /\ reqs[2].to = "mfa"
           /\ auth.token # "" => auth.token \in auth.mfaResp.access_token

\* the first response already carried a token, the MFA response another one,
\* and the flow has extracted its token
C9_Witness ==
    /\ auth.loginOK
    /\ auth.loginResp.mfa_required
    /\ auth.loginResp.access_token = {"t1"}
    /\ auth.mfaResp.access_token = {"t2"}
    /\ auth.token # ""
    /\ authPc = "orgsGet"

\* C10: when the login response has mfa_required false and holds
\* token_info.access_token, the flow returns that token, sends nothing to
\* the MFA endpoint and asks for no one-time code.
C10_NoMFAWhenNotRequired ==
    (auth.loginOK /\ ~auth.loginResp.mfa_required
       /\ auth.loginResp.access_token # {})
        => /\ ReqCount("mfa") = 0
           /\ \A i \in DOMAIN prompts : prompts[i] # "otp"
           /\ authPc # "mfaPost"
           /\ authPc # "token" =>
                (auth.token \in auth.loginResp.access_token /\ auth.e = NilErr)

\* a response without the MFA requirement (though it names an MFA session)
\* whose token has been extracted
C10_Witness ==
    /\ auth.loginOK
    /\ ~auth.loginResp.mfa_required
    /\ auth.loginResp.mfa_token = "m1"
    /\ auth.token = "t1"
    /\ authPc = "orgsGet"

\* the organization prompt as counted in the prompts shown so far
OrgPrompts == Cardinality({i \in DOMAIN prompts : prompts[i] = "organization"})

\* getSubnetAccID has come back from its index step or its error returns
AccIDDone == authPc \notin {"orgsGet", "orgChoice", "orgIndex"}

\* C11: with exactly one organization no prompt is shown and its account ID
\* is returned; with n > 1 organizations and a typed selection k, 1 <= k <= n
\* returns the k-th organization's account ID and k > n returns the input
\* error, never indexing outside the list.
C11_OrganizationSelection ==
    auth.orgsOK =>
        /\ Len(auth.orgs) = 1 =>
              /\ OrgPrompts = 0
              /\ authPc # "panic"
              /\ AccIDDone => /\ auth.accID = auth.orgs[1].accountId
                              /\ auth.accErr = NilErr
        /\ \A k \in 1..(MaxOrgs + 1) :
              (Len(auth.orgs) > 1 /\ authPc # "orgChoice"
                 /\ auth.choice = <<DigitChars[k + 1]>>) =>
                  /\ authPc # "panic"
                  /\ OrgPrompts = 1
                  /\ IF k <= Len(auth.orgs)
                     THEN AccIDDone => /\ auth.accID = auth.orgs[k].accountId
                                       /\ auth.accErr = NilErr
                     ELSE /\ AccIDDone
                          /\ auth.accID = <<>>
                          /\ auth.accErr = "Invalid choice for organization."

\* three organizations, the last one chosen, and its account ID returned
C11_Witness ==
    /\ auth.orgsOK
    /\ Len(auth.orgs) = MaxOrgs
    /\ auth.choice = <<DigitChars[MaxOrgs + 1]>>
    /\ auth.accID = auth.orgs[MaxOrgs].accountId
    /\ authPc = "authRet"

\* C12: a typed selection that is zero, negative or not a number ends
\* getSubnetAccID with an input error after the one prompt, and is never
\* used as an index.
C12_ChoiceValidated ==
    (auth.orgsOK /\ Len(auth.orgs) > 1 /\ authPc # "orgChoice"
       /\ (~Atoi(auth.choice).ok \/ Atoi(auth.choice).val <= 0)) =>
        /\ OrgPrompts = 1
        /\ authPc \notin {"orgIndex", "panic"}
        /\ auth.accErr # NilErr
        /\ auth.accID = <<>>

\* C13: when the organizations request succeeds with an empty list, the
\* flow ends with an error value and the empty list is never indexed.
C13_NoOrganizationIsAnError ==
    (auth.orgsOK /\ auth.orgs = <<>>) =>
        /\ authPc # "panic"
        /\ AccIDDone => auth.accErr # NilErr

(***************************************************************************)
(* API-key write-back: claims                                              *)
(***************************************************************************)
\* when the write-back started, the cluster listed the subnet sub-system and
\* its configuration held an api_key entry
OwnedAtCall ==
    LET c == credCall.minio0[credCall.alias]
    IN  /\ "subnet" \in c.help
        /\ \E i \in 2..Len(c.buf) : c.buf[i][1] = "api_key"

\* the alias record the write-back found, or the zero record
AliasAtCall ==
    IF credCall.alias \in DOMAIN credCall.mcCfg0
    THEN credCall.mcCfg0[credCall.alias] ELSE ZeroAlias

\* C17: a response without a non-empty api_key changes no configuration;
\* with one, the cluster's subnet configuration is the only store written
\* when the cluster holds the credential, and the local alias record is the
\* only store written otherwise; a call that has not completed (or has
\* exited fatally) has written nothing.
C17_WriteBackOneStore ==
    /\ credCall.op = "skip" =>
          /\ credPc \in {"setDone", "idle"}
          /\ minio = credCall.minio0
          /\ mcCfg = credCall.mcCfg0
    /\ credCall.op = "set" =>
          /\ credCall.apiKey # ""
          /\ IF credPc \notin {"setDone", "idle"}
             THEN minio = credCall.minio0 /\ mcCfg = credCall.mcCfg0
             ELSE IF OwnedAtCall
             THEN /\ mcCfg = credCall.mcCfg0
                  /\ minio = [credCall.minio0 EXCEPT ![credCall.alias].buf =
                                <<"subnet", <<"license", "">>,
                                  <<"api_key", credCall.apiKey>> >>]
             ELSE /\ minio = credCall.minio0
                  /\ DOMAIN mcCfg = DOMAIN credCall.mcCfg0 \cup {credCall.alias}
                  /\ \A a \in DOMAIN mcCfg :
                        mcCfg[a] = IF a = credCall.alias
                                   THEN [AliasAtCall EXCEPT !.APIKey = credCall.apiKey]
                                   ELSE credCall.mcCfg0[a]

\* the cluster of one alias held the credential and has been written, while
\* the local records still hold their own values
C17_Witness ==
    /\ credCall.op = "set"
    /\ credPc = "setDone"
    /\ OwnedAtCall
    /\ AliasAtCall.APIKey = "A1"
    /\ ClusterValue(credCall.alias, "api_key") = "K2"
    /\ minio # credCall.minio0

\* C20: the getSubnetAPIKeyFromConfig(alias) that follows a completed
\* setSubnetAPIKeyConfig(alias, k) with non-empty k returns k, whether the
\* key went to the cluster or to the local alias record.
C20_ReadAfterWrite ==
    (credPc = "done" /\ credCall.key = "api_key"
       /\ credCall.lastSet # <<>> /\ credCall.lastSet[1] = credCall.alias
       /\ credCall.lastSet[2] # "")
        => /\ credRes.kind = "value"
           /\ credRes.value = credCall.lastSet[2]

\* the key was written to the local record of an alias the file did not
\* know, the cluster has no subnet sub-system, and the getter has returned it
C20_Witness ==
    /\ credPc = "done"
    /\ credCall.key = "api_key"
    /\ credCall.lastSet = <<credCall.alias, "K2">>
    /\ "subnet" \notin minio[credCall.alias].help
    /\ credCall.localLoaded
    /\ credRes.value = "K2"

(***************************************************************************)
(* Registration info: claims                                               *)
(***************************************************************************)
\* the largest of 1 and the pool numbers of the servers
MaxPoolIndex(servers) ==
    LET seen == {1} \cup { servers[i].PoolNumber : i \in DOMAIN servers }
    IN  CHOOSE m \in seen : \A n \in seen : n <= m

\* C16: the pool count getClusterRegInfo reports is the largest pool index
\* over all servers, and 1 when no server reports more; it is never 0.
C16_PoolCount ==
    regPc = "done" =>
        /\ reg.result.NoOfServerPools = MaxPoolIndex(reg.servers)
        /\ reg.result.NoOfServerPools >= 1

\* the largest pool index is reported by a server in the middle of the list,
\* the first server reports pool 0
C16_Witness ==
    /\ regPc = "done"
    /\ Len(reg.servers) = 3
    /\ reg.servers[1].PoolNumber = 0
    /\ reg.servers[2].PoolNumber = MaxPool
    /\ reg.servers[3].PoolNumber = 1
    /\ reg.result.NoOfServerPools = MaxPool

=============================================================================
